---- MODULE Spec2Model ----
(***************************************************************************)
(* Model of the haex-sdk extension SDK.                                    *)
(*                                                                         *)
(*  - DatabaseAPI (src/src/api/database.ts): every method builds one       *)
(*    request, hands it to client.request and, when the promise settles,   *)
(*    maps the gateway's result to its return value.  The file holds two   *)
(*    definitions of the class: the earlier one is written against         *)
(*    HaexHubClient (lines 5-130), the later one against HaexVaultClient   *)
(*    (lines 136-270).  They differ only in registerMigrationsAsync.       *)
(*  - readManifest (src/unnamed/part_000): reads manifest.json, falls back *)
(*    to package.json field by field.                                      *)
(*  - The host's migration registrar, which the SDK only talks to: it is   *)
(*    modelled from the specification, not from code.                      *)
(*                                                                         *)
(* An async method is two steps: the synchronous part up to the await      *)
(* (the request is handed to the gateway) and the continuation that runs   *)
(* when the gateway settles the promise.  SQL text is a sequence of string *)
(* fragments, one per literal piece or interpolated expression of the      *)
(* template literal that builds it.                                        *)
(***************************************************************************)
EXTENDS Integers, Sequences, FiniteSets, TLC

VARIABLES
    client,     \* which DatabaseAPI definition the instance comes from
    calls,      \* per caller task: position, operation, arguments, outcome
    requests,   \* per caller task: the client.request invocations it made
    replies,    \* per caller task: how the gateway settled its request
    manifestRun, \* readManifest: not called yet, or its inputs, result and console
    host        \* the host application's migration store (outside the SDK)

dbVars == <<client, calls, requests, replies>>
vars == <<client, calls, requests, replies, manifestRun, host>>

-----------------------------------------------------------------------------
(* Bounds                                                                  *)

MaxKeys == 2
MaxMigrations == 2

\* Caller tasks that may have a call in flight at the same time.
Calls == {"c1", "c2"}

-----------------------------------------------------------------------------
(* JavaScript values.  Everything optional is a tagged record so that any  *)
(* two values can be compared.                                             *)

Undefined == [undefined |-> TRUE]
Null == [null |-> TRUE]
Num(n) == [num |-> n]
Str(s) == [str |-> s]
Arr(s) == [arr |-> s]

\* a ?? b
Nullish(a, b) == IF a \in {Undefined, Null} THEN b ELSE a

\* truthiness of the values the code tests with ?:, || and !
Falsy(a) == a \in {Undefined, Null, Str(""), Num(0)}

\* a || b
OrElse(a, b) == IF Falsy(a) THEN b ELSE a

\* Array.prototype.join: the elements are strings (sequences of fragments),
\* the result is their concatenation with sep between neighbours.
RECURSIVE Join(_, _)
Join(s, sep) ==
    IF Len(s) = 0 THEN <<>>
    ELSE IF Len(s) = 1 THEN s[1]
    ELSE s[1] \o <<sep>> \o Join(Tail(s), sep)

-----------------------------------------------------------------------------
(* Inputs                                                                  *)

KeyPool == <<"a", "b", "c", "d">>
Keys == {KeyPool[i] : i \in 1..MaxKeys}
Entry(k) == [key |-> k, value |-> "val_" \o k]

\* Record<string, unknown>: entries in insertion order, keys distinct.
DataRecords ==
    {<<>>} \cup
    UNION {{s \in [1..n -> {Entry(k) : k \in Keys}] :
                \A i, j \in 1..n : i # j => s[i].key # s[j].key} : n \in 1..MaxKeys}

DataValues == {Entry(k).value : k \in Keys}

OptParams == {Undefined, Arr(<<"p1", "p2">>)}
ParamValues == {"p1", "p2"}

Tables == {"t"}
Wheres == {Str("id = ?")}
OptWheres == {Undefined, Str(""), Str("id = ?")}
Queries == {<<"SELECT * FROM t">>}
StatementLists == {<<>>, <<"s1", "s2">>}
Versions == {"1.0.0"}

MigrationPool ==
    {[name |-> "0001_x", sql |-> "CREATE TABLE ext__a"],
     [name |-> "0002_x", sql |-> "CREATE TABLE ext__b"]}

MigrationLists == UNION {[1..n -> MigrationPool] : n \in 0..MaxMigrations}

Errors == {"E_TRANSPORT", "E_HOST"}

Row(n) == [count |-> n]

\* DatabaseQueryResult values the gateway may resolve a query with.
QueryResults ==
    {[rows |-> Arr(r), rowsAffected |-> Num(0), lastInsertId |-> Undefined] :
        r \in {<<>>, <<Null>>, <<Row(Undefined)>>, <<Row(Num(3)), Row(Num(5))>>}}

\* DatabaseQueryResult values the gateway may resolve an execute with.
ExecuteResults ==
    {[rows |-> Arr(<<>>), rowsAffected |-> Num(0), lastInsertId |-> Undefined],
     [rows |-> Arr(<<>>), rowsAffected |-> Num(1), lastInsertId |-> Num(7)]}

\* MigrationResult values the gateway may resolve a registration with.
MigrationResults ==
    {[appliedCount |-> 0, alreadyAppliedCount |-> 0, appliedMigrations |-> <<>>],
     [appliedCount |-> 1, alreadyAppliedCount |-> 1,
      appliedMigrations |-> <<"0001_x", "0002_x">>]}

-----------------------------------------------------------------------------
(* HAEXTENSION_METHODS.database.*                                          *)

M_query == "database.query"
M_execute == "database.execute"
M_transaction == "database.transaction"
M_registerMigrations == "database.registerMigrations"

ResultsFor(method) ==
    CASE method = M_query -> QueryResults
      [] method = M_execute -> ExecuteResults
      [] method = M_transaction -> {Undefined}
      [] method = M_registerMigrations -> MigrationResults

-----------------------------------------------------------------------------
(* DatabaseAPI: the request each method hands to client.request and the    *)
(* value it returns once the gateway has resolved that request.            *)

Request(method, payload) == [method |-> method, payload |-> payload]

\* Object.keys(data) / Object.values(data)
ObjectKeys(data) == [i \in 1..Len(data) |-> data[i].key]
ObjectValues(data) == [i \in 1..Len(data) |-> data[i].value]

queryRequest(query, params) ==
    Request(M_query, [query |-> query, params |-> OrElse(params, Arr(<<>>))])

queryReturn(result) == result.rows

queryOneRequest(query, params) == queryRequest(query, params)

queryOneReturn(result) ==
    LET rows == queryReturn(result).arr
    IN  IF Len(rows) > 0 THEN Nullish(rows[1], Null) ELSE Null

executeRequest(query, params) ==
    Request(M_execute, [query |-> query, params |-> OrElse(params, Arr(<<>>))])

executeReturn(result) == result

transactionRequest(statements) ==
    Request(M_transaction, [statements |-> statements])

transactionReturn(result) == Undefined

createTableQuery(tableName, columns) ==
    <<"CREATE TABLE IF NOT EXISTS ", tableName, " (", columns, ")">>

createTableRequest(tableName, columns) ==
    executeRequest(createTableQuery(tableName, columns), Undefined)

createTableReturn(result) == Undefined

dropTableQuery(tableName) == <<"DROP TABLE IF EXISTS ", tableName>>

dropTableRequest(tableName) == executeRequest(dropTableQuery(tableName), Undefined)

dropTableReturn(result) == Undefined

registerMigrationsRequest(extensionVersion, migrations) ==
    Request(M_registerMigrations,
            [extensionVersion |-> extensionVersion, migrations |-> migrations])

\* The HaexVaultClient definition returns the gateway's MigrationResult; the
\* HaexHubClient definition awaits the request and returns nothing.
registerMigrationsReturn(cl, result) ==
    IF cl = "HaexVaultClient" THEN result ELSE Undefined

\* Faulty variant of insertQuery: the values are written into the SQL text.
insertQuery_interpolated(tableName, data) ==
    LET keys == ObjectKeys(data)
        values == ObjectValues(data)
    IN  <<"INSERT INTO ", tableName, " (">>
            \o Join([i \in 1..Len(keys) |-> <<keys[i]>>], ", ")
            \o <<") VALUES (">>
            \o Join([i \in 1..Len(values) |-> <<values[i]>>], ", ") \o <<")">>

insertQuery(tableName, data) ==
    LET keys == ObjectKeys(data)
        placeholders == Join([i \in 1..Len(keys) |-> <<"?">>], ", ")
    IN  <<"INSERT INTO ", tableName, " (">>
            \o Join([i \in 1..Len(keys) |-> <<keys[i]>>], ", ")
            \o <<") VALUES (">> \o placeholders \o <<")">>

insertRequest(tableName, data) ==
    executeRequest(insertQuery(tableName, data), Arr(ObjectValues(data)))

insertReturn(result) == Nullish(result.lastInsertId, Num(-1))

updateQuery(tableName, data, where) ==
    LET keys == ObjectKeys(data)
        setClause == Join([i \in 1..Len(keys) |-> <<keys[i], " = ?">>], ", ")
    IN  <<"UPDATE ", tableName, " SET ">> \o setClause \o <<" WHERE ", where.str>>

\* Faulty variant of updateParams: the where parameters are bound before the values.
updateParams_whereFirst(data, whereParams) ==
    Arr(OrElse(whereParams, Arr(<<>>)).arr \o ObjectValues(data))

updateParams(data, whereParams) ==
    Arr(ObjectValues(data) \o OrElse(whereParams, Arr(<<>>)).arr)

updateRequest(tableName, data, where, whereParams) ==
    executeRequest(updateQuery(tableName, data, where),
                   updateParams(data, whereParams))

updateReturn(result) == result.rowsAffected

deleteQuery(tableName, where) == <<"DELETE FROM ", tableName, " WHERE ", where.str>>

deleteRequest(tableName, where, whereParams) ==
    executeRequest(deleteQuery(tableName, where), whereParams)

deleteReturn(result) == result.rowsAffected

countQuery(tableName, where) ==
    IF ~Falsy(where)
    THEN <<"SELECT COUNT(*) as count FROM ", tableName, " WHERE ", where.str>>
    ELSE <<"SELECT COUNT(*) as count FROM ", tableName>>

countRequest(tableName, where, whereParams) ==
    queryOneRequest(countQuery(tableName, where), whereParams)

countReturn(result) ==
    LET row == queryOneReturn(result)
    IN  Nullish(IF row \in {Undefined, Null} THEN Undefined ELSE row.count, Num(0))

\* What the method returns when the awaited request resolves with result.
Returned(cl, op, result) ==
    CASE op = "query" -> queryReturn(result)
      [] op = "queryOne" -> queryOneReturn(result)
      [] op = "execute" -> executeReturn(result)
      [] op = "transaction" -> transactionReturn(result)
      [] op = "createTable" -> createTableReturn(result)
      [] op = "dropTable" -> dropTableReturn(result)
      [] op = "registerMigrations" -> registerMigrationsReturn(cl, result)
      [] op = "insert" -> insertReturn(result)
      [] op = "update" -> updateReturn(result)
      [] op = "delete" -> deleteReturn(result)
      [] op = "count" -> countReturn(result)

\* Faulty variant of Thrown: the failure is caught and replaced by a generic one.
Thrown_wrapped(op, error) == "E_DATABASE"

\* What the method throws when the awaited request rejects with error: no
\* method has a try/catch, the rejection passes through every await.
Thrown(op, error) == error

-----------------------------------------------------------------------------
(* readManifest                                                            *)

\* What readFileSync + JSON.parse find at a path: no file (readFileSync
\* throws), text that is not JSON (JSON.parse throws), or a JSON value.
NoFile == [file |-> "missing"]
BadJson == [file |-> "invalid"]
Json(v) == [file |-> "json", value |-> v]

Fallbacks == {"name", "version", "author", "homepage"}
Extras == {"entry", "icon", "publicKey", "signature", "permissions", "description",
           "singleInstance", "displayMode"}

DefaultPermissions ==
    [database |-> <<>>, filesystem |-> <<>>, http |-> <<>>, shell |-> <<>>]

\* {}: every property reads as undefined
EmptyObject == [f \in Fallbacks |-> Undefined]

NameValues(s) == {Undefined, Null, Str(""), Str(s)}
OptString(s) == {Undefined, Str(s)}

NoExtras == [f \in Extras |-> Undefined]
AllExtras ==
    [entry |-> Str("index.html"), icon |-> Str("icon.png"), publicKey |-> Str("pk"),
     signature |-> Str("sig"),
     permissions |-> [database |-> <<"t">>, filesystem |-> <<>>, http |-> <<>>,
                      shell |-> <<>>],
     description |-> Str("d"), singleInstance |-> Str("true"),
     displayMode |-> Str("window")]

ManifestObjects ==
    {[name |-> n, version |-> v, author |-> a, homepage |-> h, extras |-> x] :
        n \in NameValues("m-name"), v \in NameValues("0.9.0"),
        a \in OptString("m-author"), h \in OptString("m-home"),
        x \in {NoExtras, AllExtras}}

PackageObjects ==
    {[name |-> n, version |-> v, author |-> a, homepage |-> h] :
        n \in NameValues("p-name"), v \in NameValues("1.2.3"),
        a \in OptString("p-author"), h \in OptString("p-home")}

ManifestFiles == {NoFile, BadJson, Json(Null)} \cup {Json(o) : o \in ManifestObjects}
PackageFiles == {NoFile, BadJson, Json(Null)} \cup {Json(o) : o \in PackageObjects}

ManifestOptions ==
    {[rootDir |-> "/root", manifestPath |-> Undefined, extensionDir |-> Undefined],
     [rootDir |-> "/root", manifestPath |-> Undefined, extensionDir |-> Str("ext")],
     [rootDir |-> "/root", manifestPath |-> Str("custom.json"),
      extensionDir |-> Undefined]}

ManifestOptions1 ==
    [rootDir |-> "/root", manifestPath |-> Undefined, extensionDir |-> Undefined]

NotCalled(o, m, p) ==
    [called |-> FALSE, options |-> o, manifestFile |-> m, packageFile |-> p,
     outcome |-> Undefined]

\* the manifestPath ? ... : ... of the path resolution, extensionDir
\* defaulting to "haextension"
resolvedManifestPath(options) ==
    IF ~Falsy(options.manifestPath)
    THEN <<options.rootDir, options.manifestPath.str>>
    ELSE <<options.rootDir,
           (IF options.extensionDir = Undefined THEN "haextension"
            ELSE options.extensionDir.str),
           "manifest.json">>

Warn(msg) == [level |-> "warn", msg |-> msg]
Log(msg) == [level |-> "log", msg |-> msg]

W_package == Warn(<<"Could not read package.json">>)
W_noName == Warn(<<"No name found in manifest or package.json">>)
W_noVersion == Warn(<<"No version found in manifest or package.json">>)
W_notFound(path) == Warn(<<"manifest.json not found at ">> \o path)
L_loaded(path) == Log(<<"Loaded ">> \o path)

\* Faulty variant of readPackageJson: no inner try/catch, the failure to read
\* package.json escapes to the enclosing handler.
readPackageJson_uncaught(packageFile) ==
    IF packageFile.file = "json"
    THEN [threw |-> FALSE, packageJson |-> packageFile.value, console |-> <<>>]
    ELSE [threw |-> TRUE, packageJson |-> EmptyObject, console |-> <<>>]

\* The inner try/catch: packageJson stays {} and a warning is printed when
\* package.json cannot be read or parsed.
readPackageJson(packageFile) ==
    IF packageFile.file = "json"
    THEN [threw |-> FALSE, packageJson |-> packageFile.value, console |-> <<>>]
    ELSE [threw |-> FALSE, packageJson |-> EmptyObject, console |-> <<W_package>>]

\* Faulty variant of Fallback: package.json wins over the manifest.
Fallback_packageFirst(parsedValue, packageValue) == Nullish(packageValue, parsedValue)

\* parsed.f ?? packageJson.f
Fallback(parsedValue, packageValue) == Nullish(parsedValue, packageValue)

\* Reading a property of null throws a TypeError; ?? reads packageJson.f only
\* when parsed.f is null or undefined.
FallbackThrows(parsed, packageJson) ==
    \/ parsed = Null
    \/ /\ packageJson = Null
       /\ \E f \in Fallbacks : parsed[f] \in {Undefined, Null}

\* obj.f; reading a property of null is the TypeError of FallbackThrows.
Get(obj, f) == IF obj = Null THEN Undefined ELSE obj[f]

\* The body of the outer try block.  threw tells that an exception left it.
manifestBody(path, manifestFile, packageFile) ==
    IF manifestFile.file # "json"
    THEN [threw |-> TRUE, result |-> Null, console |-> <<>>]
    ELSE
      LET parsed == manifestFile.value
          pkg == readPackageJson(packageFile)
          packageJson == pkg.packageJson
      IN  IF pkg.threw \/ FallbackThrows(parsed, packageJson)
          THEN [threw |-> TRUE, result |-> Null, console |-> pkg.console]
          ELSE
            LET name == Fallback(parsed.name, Get(packageJson, "name"))
                version == Fallback(parsed.version, Get(packageJson, "version"))
                author ==
                    Nullish(Fallback(parsed.author, Get(packageJson, "author")), Null)
                homepage ==
                    Nullish(Fallback(parsed.homepage, Get(packageJson, "homepage")), Null)
                x == parsed.extras
            IN  IF Falsy(name)
                THEN [threw |-> FALSE, result |-> Null,
                      console |-> Append(pkg.console, W_noName)]
                ELSE IF Falsy(version)
                THEN [threw |-> FALSE, result |-> Null,
                      console |-> Append(pkg.console, W_noVersion)]
                ELSE [threw |-> FALSE,
                      result |->
                        [name |-> name,
                         version |-> version,
                         author |-> author,
                         entry |-> Nullish(x.entry, Null),
                         icon |-> Nullish(x.icon, Null),
                         publicKey |-> Nullish(x.publicKey, Str("")),
                         signature |-> Nullish(x.signature, Str("")),
                         permissions |-> Nullish(x.permissions, DefaultPermissions),
                         homepage |-> homepage,
                         description |-> Nullish(x.description, Null),
                         singleInstance |-> Nullish(x.singleInstance, Null),
                         displayMode |-> Nullish(x.displayMode, Null)],
                      console |-> Append(pkg.console, L_loaded(path))]

\* try { body } catch (error) { console.warn(...); return null }
manifestOutcome(options, manifestFile, packageFile) ==
    LET path == resolvedManifestPath(options)
        body == manifestBody(path, manifestFile, packageFile)
    IN  IF body.threw
        THEN [threw |-> FALSE, result |-> Null,
              console |-> Append(body.console, W_notFound(path))]
        ELSE body

-----------------------------------------------------------------------------
(* The host's migration registrar.  It is not part of the SDK: it is        *)
(* modelled from the specification (sections 3 and 4.1) and from the steps  *)
(* listed in the comment above registerMigrationsAsync.                     *)

ForeignMigration == [name |-> "0003_y", sql |-> "DROP TABLE haex_core"]

HostMigrationPool == MigrationPool \cup {ForeignMigration}

\* Migration sets as the specification allows them: names unique in a set.
HostMigrationLists ==
    {s \in UNION {[1..n -> HostMigrationPool] : n \in 0..MaxMigrations} :
        \A i, j \in 1..Len(s) : i # j => s[i].name # s[j].name}

\* Migration names in ascending (lexicographic) order.
NameOrder == <<"0001_x", "0002_x", "0003_y">>
Rank(name) == CHOOSE i \in 1..Len(NameOrder) : NameOrder[i] = name

\* The statements that touch only tables of the calling extension.
InNamespace(sql) == sql \in {"CREATE TABLE ext__a", "CREATE TABLE ext__b"}

HostPolicies == {"abort-all", "skip-failed"}

HostEmpty(policy) == [policy |-> policy, applied |-> <<>>, log |-> <<>>]

Range(s) == {s[i] : i \in 1..Len(s)}

\* Faulty variant of SortByName: the comparison is the wrong way round.
RECURSIVE SortByName_descending(_)
SortByName_descending(names) ==
    IF names = {} THEN <<>>
    ELSE LET n == CHOOSE x \in names : \A y \in names : Rank(x) >= Rank(y)
         IN  <<n>> \o SortByName_descending(names \ {n})

\* "Query pending migrations sorted by name"
RECURSIVE SortByName(_)
SortByName(names) ==
    IF names = {} THEN <<>>
    ELSE LET n == CHOOSE x \in names : \A y \in names : Rank(x) <= Rank(y)
         IN  <<n>> \o SortByName(names \ {n})

\* Faulty variant of Validated: the SQL is not checked.
Validated_unchecked(migrations) == Range(migrations)

\* "Validate all SQL statements (ensure only extension's own tables are
\* accessed)": the migrations that pass.
Validated(migrations) == {m \in Range(migrations) : InNamespace(m.sql)}

\* One registration handled by the host: which names it applies, in which
\* order, and what it answers.
HostOutcome(h, migrations) ==
    LET valid == {m.name : m \in Validated(migrations)}
        rejected == {m.name : m \in Range(migrations)} \ valid
        pending == SortByName(valid \ Range(h.applied))
        already == valid \cap Range(h.applied)
    IN  IF rejected # {} /\ h.policy = "abort-all"
        THEN [ok |-> FALSE, error |-> "E_HOST", applied |-> <<>>]
        ELSE [ok |-> TRUE,
              applied |-> pending,
              result |-> [appliedCount |-> Len(pending),
                          alreadyAppliedCount |-> Cardinality(already),
                          appliedMigrations |-> SortByName(valid)]]

-----------------------------------------------------------------------------
(* State machine                                                           *)

Idle == [pc |-> "idle", op |-> "none", args |-> Undefined, out |-> Undefined]

Init ==
    /\ manifestRun = NotCalled(ManifestOptions1, NoFile, NoFile)
    /\ host = HostEmpty("abort-all")
    /\ client \in {"HaexHubClient", "HaexVaultClient"}
    /\ calls = [c \in Calls |-> Idle]
    /\ requests = [c \in Calls |-> <<>>]
    /\ replies = [c \in Calls |-> Undefined]

\* The synchronous part of every method: it builds its request, calls
\* client.request once and suspends at the await.
Started(c, op, args) ==
    [calls EXCEPT ![c] = [pc |-> "awaiting", op |-> op, args |-> args, out |-> Undefined]]

\* Faulty variant of Sent: the instance keeps one outgoing-request buffer that every
\* call still waiting shares.
Sent_sharedBuffer(c, request) ==
    [d \in Calls |->
        IF d = c THEN Append(requests[d], request)
        ELSE IF calls[d].pc = "awaiting" THEN <<request>>
        ELSE requests[d]]

Sent(c, request) == [requests EXCEPT ![c] = Append(@, request)]

query(c, q, params) ==
    /\ calls[c].pc = "idle"
    /\ calls' = Started(c, "query", [query |-> q, params |-> params])
    /\ requests' = Sent(c, queryRequest(q, params))
    /\ UNCHANGED <<client, replies, manifestRun, host>>

queryOne(c, q, params) ==
    /\ calls[c].pc = "idle"
    /\ calls' = Started(c, "queryOne", [query |-> q, params |-> params])
    /\ requests' = Sent(c, queryOneRequest(q, params))
    /\ UNCHANGED <<client, replies, manifestRun, host>>

execute(c, q, params) ==
    /\ calls[c].pc = "idle"
    /\ calls' = Started(c, "execute", [query |-> q, params |-> params])
    /\ requests' = Sent(c, executeRequest(q, params))
    /\ UNCHANGED <<client, replies, manifestRun, host>>

transaction(c, statements) ==
    /\ calls[c].pc = "idle"
    /\ calls' = Started(c, "transaction", [statements |-> statements])
    /\ requests' = Sent(c, transactionRequest(statements))
    /\ UNCHANGED <<client, replies, manifestRun, host>>

createTable(c, tableName, columns) ==
    /\ calls[c].pc = "idle"
    /\ calls' = Started(c, "createTable", [tableName |-> tableName, columns |-> columns])
    /\ requests' = Sent(c, createTableRequest(tableName, columns))
    /\ UNCHANGED <<client, replies, manifestRun, host>>

dropTable(c, tableName) ==
    /\ calls[c].pc = "idle"
    /\ calls' = Started(c, "dropTable", [tableName |-> tableName])
    /\ requests' = Sent(c, dropTableRequest(tableName))
    /\ UNCHANGED <<client, replies, manifestRun, host>>

registerMigrationsAsync(c, extensionVersion, migrations) ==
    /\ calls[c].pc = "idle"
    /\ calls' = Started(c, "registerMigrations",
                        [extensionVersion |-> extensionVersion,
                         migrations |-> migrations])
    /\ requests' = Sent(c, registerMigrationsRequest(extensionVersion, migrations))
    /\ UNCHANGED <<client, replies, manifestRun, host>>

insert(c, tableName, data) ==
    /\ calls[c].pc = "idle"
    /\ calls' = Started(c, "insert", [tableName |-> tableName, data |-> data])
    /\ requests' = Sent(c, insertRequest(tableName, data))
    /\ UNCHANGED <<client, replies, manifestRun, host>>

update(c, tableName, data, where, whereParams) ==
    /\ calls[c].pc = "idle"
    /\ calls' = Started(c, "update",
                        [tableName |-> tableName, data |-> data, where |-> where,
                         whereParams |-> whereParams])
    /\ requests' = Sent(c, updateRequest(tableName, data, where, whereParams))
    /\ UNCHANGED <<client, replies, manifestRun, host>>

delete(c, tableName, where, whereParams) ==
    /\ calls[c].pc = "idle"
    /\ calls' = Started(c, "delete",
                        [tableName |-> tableName, where |-> where,
                         whereParams |-> whereParams])
    /\ requests' = Sent(c, deleteRequest(tableName, where, whereParams))
    /\ UNCHANGED <<client, replies, manifestRun, host>>

count(c, tableName, where, whereParams) ==
    /\ calls[c].pc = "idle"
    /\ calls' = Started(c, "count",
                        [tableName |-> tableName, where |-> where,
                         whereParams |-> whereParams])
    /\ requests' = Sent(c, countRequest(tableName, where, whereParams))
    /\ UNCHANGED <<client, replies, manifestRun, host>>

\* The gateway resolves the promise of c's request; the method resumes after
\* its await and returns.
Resolve(c, result) ==
    /\ calls[c].pc = "awaiting"
    /\ result \in ResultsFor(requests[c][Len(requests[c])].method)
    /\ replies' = [replies EXCEPT ![c] = [ok |-> TRUE, result |-> result]]
    /\ calls' = [calls EXCEPT ![c].pc = "resolved",
                              ![c].out = [value |-> Returned(client, calls[c].op, result)]]
    /\ UNCHANGED <<client, requests, manifestRun, host>>

\* The gateway rejects the promise of c's request; the await throws.
Reject(c, error) ==
    /\ calls[c].pc = "awaiting"
    /\ replies' = [replies EXCEPT ![c] = [ok |-> FALSE, error |-> error]]
    /\ calls' = [calls EXCEPT ![c].pc = "rejected",
                              ![c].out = [error |-> Thrown(calls[c].op, error)]]
    /\ UNCHANGED <<client, requests, manifestRun, host>>

Next ==
    \E c \in Calls :
        \/ \E q \in Queries, p \in OptParams : query(c, q, p)
        \/ \E q \in Queries, p \in OptParams : queryOne(c, q, p)
        \/ \E q \in Queries, p \in OptParams : execute(c, q, p)
        \/ \E s \in StatementLists : transaction(c, s)
        \/ \E t \in Tables : createTable(c, t, "id INTEGER")
        \/ \E t \in Tables : dropTable(c, t)
        \/ \E v \in Versions, m \in MigrationLists : registerMigrationsAsync(c, v, m)
        \/ \E t \in Tables, d \in DataRecords : insert(c, t, d)
        \/ \E t \in Tables, d \in DataRecords, w \in Wheres, p \in OptParams :
                update(c, t, d, w, p)
        \/ \E t \in Tables, w \in Wheres, p \in OptParams : delete(c, t, w, p)
        \/ \E t \in Tables, w \in OptWheres, p \in OptParams : count(c, t, w, p)
        \/ \E r \in QueryResults \cup ExecuteResults \cup MigrationResults \cup {Undefined} :
                Resolve(c, r)
        \/ \E e \in Errors : Reject(c, e)

Spec == Init /\ [][Next]_vars

-----------------------------------------------------------------------------
(* readManifest as a step                                                  *)

\* One invocation of readManifest on the files found on disk.
readManifest ==
    /\ ~manifestRun.called
    /\ manifestRun' =
         [manifestRun EXCEPT
            !.called = TRUE,
            !.outcome = manifestOutcome(manifestRun.options, manifestRun.manifestFile,
                                        manifestRun.packageFile)]
    /\ UNCHANGED <<dbVars, host>>

\* readManifest is about to be called with options o on a disk holding
\* manifest file m and package.json p.
ManifestInit ==
    /\ client = "HaexVaultClient"
    /\ calls = [c \in Calls |-> Idle]
    /\ requests = [c \in Calls |-> <<>>]
    /\ replies = [c \in Calls |-> Undefined]
    /\ host = HostEmpty("abort-all")
    /\ \E o \in ManifestOptions, m \in ManifestFiles, p \in PackageFiles :
            manifestRun = NotCalled(o, m, p)

ManifestNext == readManifest

ManifestSpec == ManifestInit /\ [][ManifestNext]_vars

-----------------------------------------------------------------------------
(* Registration against the host                                           *)

\* The host handles the registration request of call c as one unit and the
\* gateway settles the request with the host's answer.
HostRegister(c) ==
    /\ calls[c].pc = "awaiting"
    /\ calls[c].op = "registerMigrations"
    /\ LET req == requests[c][Len(requests[c])]
           o == HostOutcome(host, req.payload.migrations)
       IN  /\ host' = [host EXCEPT
                          !.applied = @ \o o.applied,
                          !.log = Append(@, [call |-> c, ok |-> o.ok,
                                             applied |-> o.applied])]
           /\ IF o.ok
              THEN /\ replies' = [replies EXCEPT ![c] = [ok |-> TRUE, result |-> o.result]]
                   /\ calls' = [calls EXCEPT
                                  ![c].pc = "resolved",
                                  ![c].out = [value |-> Returned(client, calls[c].op, o.result)]]
              ELSE /\ replies' = [replies EXCEPT ![c] = [ok |-> FALSE, error |-> o.error]]
                   /\ calls' = [calls EXCEPT
                                  ![c].pc = "rejected",
                                  ![c].out = [error |-> Thrown(calls[c].op, o.error)]]
    /\ UNCHANGED <<client, requests, manifestRun>>

RegistrarInit ==
    /\ client \in {"HaexHubClient", "HaexVaultClient"}
    /\ calls = [c \in Calls |-> Idle]
    /\ requests = [c \in Calls |-> <<>>]
    /\ replies = [c \in Calls |-> Undefined]
    /\ manifestRun = NotCalled(ManifestOptions1, NoFile, NoFile)
    /\ \E p \in HostPolicies : host = HostEmpty(p)

RegistrarNext ==
    \E c \in Calls :
        \/ \E v \in Versions, m \in HostMigrationLists : registerMigrationsAsync(c, v, m)
        \/ HostRegister(c)
        \/ Reject(c, "E_TRANSPORT")

RegistrarSpec == RegistrarInit /\ [][RegistrarNext]_vars

-----------------------------------------------------------------------------
(* Properties of DatabaseAPI                                               *)

Active(c) == calls[c].pc # "idle"
Settled(c) == calls[c].pc \in {"resolved", "rejected"}

\* k1, ", ", k2, ", ", ..., kn built from the right
RECURSIVE ColumnList(_)
ColumnList(keys) ==
    IF Len(keys) = 0 THEN <<>>
    ELSE IF Len(keys) = 1 THEN <<keys[1]>>
    ELSE ColumnList(SubSeq(keys, 1, Len(keys) - 1)) \o <<", ", keys[Len(keys)]>>

\* k1, " = ?", ", ", k2, " = ?", ... built from the right
RECURSIVE Assignments(_)
Assignments(keys) ==
    IF Len(keys) = 0 THEN <<>>
    ELSE IF Len(keys) = 1 THEN <<keys[1], " = ?">>
    ELSE Assignments(SubSeq(keys, 1, Len(keys) - 1))
            \o <<", ", keys[Len(keys)], " = ?">>

Occurrences(text, fragment) == Cardinality({i \in 1..Len(text) : text[i] = fragment})

\* C1: every registerMigrations call issues exactly one request under the
\* registerMigrations method whose payload is {extensionVersion, migrations}
\* with the migrations as submitted, and when the gateway resolves it the
\* call returns the gateway's MigrationResult unchanged.
C1_RegisterMigrationsPassThrough ==
    \A c \in Calls :
        calls[c].op = "registerMigrations" =>
            /\ requests[c] =
                 <<[method |-> M_registerMigrations,
                    payload |-> [extensionVersion |-> calls[c].args.extensionVersion,
                                 migrations |-> calls[c].args.migrations]]>>
            /\ calls[c].pc = "resolved" => calls[c].out = [value |-> replies[c].result]

\* C2: a call whose gateway request fails is rejected with that same failure
\* and has issued exactly one gateway request; a failed request never ends in
\* a returned value.
C2_FailurePropagates ==
    \A c \in Calls :
        /\ Active(c) => Len(requests[c]) = 1
        /\ (Settled(c) /\ ~replies[c].ok) =>
                /\ calls[c].pc = "rejected"
                /\ calls[c].out = [error |-> replies[c].error]
        /\ calls[c].pc = "rejected" => ~replies[c].ok

C2_Witness ==
    /\ calls["c1"].pc = "rejected" /\ calls["c1"].op = "count"
    /\ replies["c1"] = [ok |-> FALSE, error |-> "E_HOST"]
    /\ calls["c2"].pc = "rejected" /\ calls["c2"].op = "registerMigrations"
    /\ replies["c2"] = [ok |-> FALSE, error |-> "E_TRANSPORT"]

\* C6: insert(t, data) issues exactly one execute request whose SQL is
\* INSERT INTO t (k1, ..., kn) VALUES (?, ..., ?) with n placeholders and whose
\* bound parameters are the values in the order of the column list; it returns
\* the last-inserted identifier the host reports (-1 when the host reports none).
C6_InsertRequest ==
    \A c \in Calls :
        calls[c].op = "insert" =>
            LET t == calls[c].args.tableName
                data == calls[c].args.data
                n == Len(data)
                keys == [i \in 1..n |-> data[i].key]
                req == requests[c][1]
            IN  /\ Len(requests[c]) = 1
                /\ req.method = M_execute
                /\ req.payload.query =
                     <<"INSERT INTO ", t, " (">> \o ColumnList(keys)
                        \o <<") VALUES (">> \o ColumnList([i \in 1..n |-> "?"]) \o <<")">>
                /\ Occurrences(req.payload.query, "?") = n
                /\ req.payload.params = Arr([i \in 1..n |-> data[i].value])
                /\ \A i \in 1..Len(req.payload.query) :
                        req.payload.query[i] \notin DataValues
                /\ calls[c].pc = "resolved" =>
                     LET id == replies[c].result.lastInsertId
                     IN  calls[c].out =
                            [value |-> IF id \in {Undefined, Null} THEN Num(-1) ELSE id]

C6_Witness ==
    \E c \in Calls :
        /\ calls[c].op = "insert" /\ calls[c].pc = "resolved"
        /\ ObjectKeys(calls[c].args.data) = <<"b", "a">>
        /\ requests[c][1].payload.query =
             <<"INSERT INTO ", "t", " (", "b", ", ", "a", ") VALUES (", "?", ", ", "?", ")">>
        /\ requests[c][1].payload.params = Arr(<<"val_b", "val_a">>)
        /\ calls[c].out = [value |-> Num(7)]

\* C9: update(t, data, where, whereParams) issues exactly one execute request
\* whose SQL is UPDATE t SET k1 = ?, ..., kn = ? WHERE <where> and whose bound
\* parameters are the data values in key order followed by whereParams (nothing
\* when omitted); delete(t, where, whereParams) issues DELETE FROM t WHERE
\* <where> with whereParams (the empty list when omitted); no data value or
\* parameter appears in the SQL text; both return the host's rowsAffected.
C9_UpdateDeleteRequest ==
    \A c \in Calls :
        /\ calls[c].op = "update" =>
            LET a == calls[c].args
                n == Len(a.data)
                keys == [i \in 1..n |-> a.data[i].key]
                extra == IF a.whereParams = Undefined THEN <<>> ELSE a.whereParams.arr
                req == requests[c][1]
            IN  /\ Len(requests[c]) = 1
                /\ req.method = M_execute
                /\ req.payload.query =
                     <<"UPDATE ", a.tableName, " SET ">> \o Assignments(keys)
                        \o <<" WHERE ", a.where.str>>
                /\ Occurrences(req.payload.query, " = ?") = n
                /\ Len(req.payload.params.arr) = n + Len(extra)
                /\ \A i \in 1..n : req.payload.params.arr[i] = a.data[i].value
                /\ \A i \in 1..Len(extra) : req.payload.params.arr[n + i] = extra[i]
                /\ \A i \in 1..Len(req.payload.query) :
                        req.payload.query[i] \notin DataValues \cup ParamValues
                /\ calls[c].pc = "resolved" =>
                     calls[c].out = [value |-> replies[c].result.rowsAffected]
        /\ calls[c].op = "delete" =>
            LET a == calls[c].args
                req == requests[c][1]
            IN  /\ Len(requests[c]) = 1
                /\ req.method = M_execute
                /\ req.payload.query = <<"DELETE FROM ", a.tableName, " WHERE ", a.where.str>>
                /\ req.payload.params =
                     (IF a.whereParams = Undefined THEN Arr(<<>>) ELSE a.whereParams)
                /\ calls[c].pc = "resolved" =>
                     calls[c].out = [value |-> replies[c].result.rowsAffected]

C9_Witness ==
    /\ calls["c1"].op = "update" /\ calls["c1"].pc = "resolved"
    /\ ObjectKeys(calls["c1"].args.data) = <<"b", "a">>
    /\ calls["c1"].args.whereParams = Arr(<<"p1", "p2">>)
    /\ requests["c1"][1].payload.query =
         <<"UPDATE ", "t", " SET ", "b", " = ?", ", ", "a", " = ?", " WHERE ", "id = ?">>
    /\ requests["c1"][1].payload.params = Arr(<<"val_b", "val_a", "p1", "p2">>)
    /\ calls["c1"].out = [value |-> Num(1)]
    /\ calls["c2"].op = "delete" /\ calls["c2"].pc = "resolved"
    /\ calls["c2"].args.whereParams = Undefined
    /\ requests["c2"][1].payload.params = Arr(<<>>)

\* C10: calls in flight together do not interfere.  Each call that has started
\* has issued exactly one request, under the method of its own operation and
\* carrying its own arguments; a settled call is rejected with the failure of
\* its own request or resolved with the value its operation derives from the
\* result of its own request; a step of one call changes nothing of another
\* call, and the instance's only field never changes.
C10_StateVisible ==
    \A c \in Calls :
        /\ Active(c) =>
            LET a == calls[c].args
                op == calls[c].op
                req == requests[c][1]
                given(p) == IF p = Undefined THEN Arr(<<>>) ELSE p
            IN  /\ Len(requests[c]) = 1
                /\ op \in {"query", "queryOne"} =>
                        req = [method |-> M_query,
                               payload |-> [query |-> a.query, params |-> given(a.params)]]
                /\ op = "execute" =>
                        req = [method |-> M_execute,
                               payload |-> [query |-> a.query, params |-> given(a.params)]]
                /\ op = "transaction" =>
                        req = [method |-> M_transaction,
                               payload |-> [statements |-> a.statements]]
                /\ op = "registerMigrations" =>
                        req = [method |-> M_registerMigrations,
                               payload |-> [extensionVersion |-> a.extensionVersion,
                                            migrations |-> a.migrations]]
                /\ op \in {"createTable", "dropTable", "insert", "update", "delete"} =>
                        /\ req.method = M_execute
                        /\ req.payload.query[2] = a.tableName
                /\ op = "count" =>
                        /\ req.method = M_query
                        /\ req.payload.query[2] = a.tableName
                        /\ req.payload.params = given(a.whereParams)
        /\ calls[c].pc = "awaiting" => replies[c] = Undefined
        /\ calls[c].pc = "rejected" =>
                /\ ~replies[c].ok
                /\ calls[c].out = [error |-> replies[c].error]
        /\ calls[c].pc = "resolved" =>
                /\ replies[c].ok
                /\ LET r == replies[c].result
                       op == calls[c].op
                       v == calls[c].out.value
                   IN  /\ op = "query" => v = r.rows
                       /\ op = "execute" => v = r
                       /\ op \in {"transaction", "createTable", "dropTable"} => v = Undefined
                       /\ op \in {"update", "delete"} => v = r.rowsAffected
                       /\ op = "insert" => v \in {r.lastInsertId, Num(-1)}
                       /\ op = "queryOne" => v \in {Null} \cup {r.rows.arr[i] : i \in 1..Len(r.rows.arr)}
                       /\ op = "count" =>
                            v \in {Num(0)} \cup {r.rows.arr[i].count : i \in {j \in 1..Len(r.rows.arr) : r.rows.arr[j] # Null}}
                       /\ (op = "registerMigrations" /\ client = "HaexVaultClient") => v = r
                       /\ (op = "registerMigrations" /\ client = "HaexHubClient") =>
                            v = Undefined

C10_StepLocal ==
    /\ client' = client
    /\ \A c, d \in Calls :
        (c # d /\ <<calls[c], requests[c], replies[c]>> # <<calls[c], requests[c], replies[c]>>')
            => <<calls[d], requests[d], replies[d]>>' = <<calls[d], requests[d], replies[d]>>
    /\ \A c \in Calls :
        Active(c) => /\ calls[c].op' = calls[c].op
                     /\ calls[c].args' = calls[c].args
                     /\ requests[c]' = requests[c]
                     /\ Settled(c) => (calls[c]' = calls[c] /\ replies[c]' = replies[c])

C10_Stateless == [](C10_StateVisible) /\ [][C10_StepLocal]_vars

C10_Witness ==
    /\ calls["c1"].op = "insert" /\ calls["c1"].pc = "resolved"
    /\ calls["c2"].op = "update" /\ calls["c2"].pc = "rejected"
    /\ replies["c1"].result.lastInsertId = Num(7)
    /\ calls["c1"].out = [value |-> Num(7)]
    /\ calls["c2"].out = [error |-> "E_HOST"]
    /\ requests["c1"][1].payload.params # requests["c2"][1].payload.params

-----------------------------------------------------------------------------
(* Properties of readManifest                                              *)

Supplied(v) == v \notin {Undefined, Null}

ManifestReadable ==
    manifestRun.manifestFile.file = "json" /\ manifestRun.manifestFile.value # Null

PackageReadable ==
    manifestRun.packageFile.file = "json" /\ manifestRun.packageFile.value # Null

ManifestValue(f) == IF ManifestReadable THEN manifestRun.manifestFile.value[f] ELSE Undefined
PackageValue(f) == IF PackageReadable THEN manifestRun.packageFile.value[f] ELSE Undefined

\* the first supplied value among the manifest's and package.json's
FirstPresent(f) == IF Supplied(ManifestValue(f)) THEN ManifestValue(f) ELSE PackageValue(f)

Warned ==
    \E i \in 1..Len(manifestRun.outcome.console) :
        manifestRun.outcome.console[i].level = "warn"

\* C7: with a readable manifest, every manifest returned has name and version
\* (and author, homepage) equal to the manifest's value when the manifest
\* supplies one and to package.json's value otherwise (null for an author or
\* homepage that neither supplies); a manifest without version next to a
\* package.json with version "1.2.3" gives, when a name is found, a manifest
\* with version "1.2.3".
C7_ManifestMerge ==
    (manifestRun.called /\ ManifestReadable) =>
        LET out == manifestRun.outcome.result
        IN  /\ out # Null =>
                /\ \A f \in {"name", "version"} : out[f] = FirstPresent(f)
                /\ \A f \in {"author", "homepage"} :
                        out[f] = (IF Supplied(FirstPresent(f)) THEN FirstPresent(f) ELSE Null)
                /\ \A f \in Fallbacks :
                        Supplied(ManifestValue(f)) => out[f] = ManifestValue(f)
            /\ ( /\ ~Supplied(ManifestValue("version"))
                 /\ PackageValue("version") = Str("1.2.3")
                 /\ Supplied(FirstPresent("name")) /\ FirstPresent("name") # Str("") )
                => (out # Null /\ out.version = Str("1.2.3"))

C7_Witness ==
    /\ manifestRun.called
    /\ ManifestReadable
    /\ ManifestValue("version") = Undefined
    /\ ManifestValue("name") = Str("m-name")
    /\ PackageValue("name") = Str("p-name")
    /\ PackageValue("version") = Str("1.2.3")
    /\ manifestRun.outcome.result # Null
    /\ manifestRun.outcome.result.version = Str("1.2.3")
    /\ manifestRun.outcome.result.name = Str("m-name")

\* C8: readManifest never throws; it returns null and prints a warning when
\* the manifest file is missing or is not JSON, when neither file supplies a
\* name, and when neither supplies a version; a package.json that cannot be
\* read or parsed does not make the result null when the manifest itself has
\* a name and a version.
C8_ManifestSoftFailure ==
    manifestRun.called =>
        LET out == manifestRun.outcome
        IN  /\ ~out.threw
            /\ ( \/ manifestRun.manifestFile.file \in {"missing", "invalid"}
                 \/ ~Supplied(FirstPresent("name"))
                 \/ ~Supplied(FirstPresent("version")) )
                => (out.result = Null /\ Warned)
            /\ out.result = Null => Warned
            /\ ( /\ manifestRun.packageFile.file \in {"missing", "invalid"}
                 /\ ~Falsy(ManifestValue("name"))
                 /\ ~Falsy(ManifestValue("version")) )
                => out.result # Null

C8_Witness ==
    /\ manifestRun.called
    /\ ManifestReadable /\ PackageReadable
    /\ ManifestValue("name") = Undefined /\ PackageValue("name") = Null
    /\ ManifestValue("version") = Str("0.9.0")
    /\ manifestRun.outcome.result = Null
    /\ manifestRun.outcome.console = <<W_noName>>

-----------------------------------------------------------------------------
(* Properties of registration against the host                             *)

Names(migrations) == [i \in 1..Len(migrations) |-> migrations[i].name]

Submitted(c) == calls[c].args.migrations

AllInNamespace(migrations) ==
    \A i \in 1..Len(migrations) : InNamespace(migrations[i].sql)

\* the names the host had marked applied before it handled log entry i
AppliedBefore(i) == UNION {Range(host.log[k].applied) : k \in 1..(i - 1)}

\* C3: when the same non-empty migration set is registered twice with the
\* same extensionVersion, the second call yields an already-applied count
\* equal to the size of the set and a newly-applied count of zero; and no name
\* is applied twice.
C3_SecondRegistrationIsNoOp ==
    /\ \A i, j \in 1..Len(host.log) :
        LET c == host.log[i].call
            d == host.log[j].call
        IN  ( /\ i < j
              /\ calls[c].args = calls[d].args
              /\ Len(Submitted(c)) > 0
              /\ AllInNamespace(Submitted(c)) )
            => /\ calls[d].pc = "resolved"
               /\ calls[d].out =
                    [value |-> [appliedCount |-> 0,
                                alreadyAppliedCount |-> Len(Submitted(d)),
                                appliedMigrations |-> replies[d].result.appliedMigrations]]
    /\ \A i, j \in 1..Len(host.applied) : i # j => host.applied[i] # host.applied[j]

\* C4: within one registration the host applies the pending migrations in
\* ascending order of name whatever the order of submission: the names applied
\* are exactly the accepted, not yet applied names the caller submitted, and
\* they are applied in ascending order.
C4_ApplyOrderByName ==
    \A i \in 1..Len(host.log) :
        LET e == host.log[i]
            accepted == {m.name : m \in {x \in Range(Submitted(e.call)) : InNamespace(x.sql)}}
        IN  /\ \A a, b \in 1..Len(e.applied) :
                    a < b => Rank(e.applied[a]) < Rank(e.applied[b])
            /\ e.ok => Range(e.applied) = accepted \ AppliedBefore(i)
            /\ ~e.ok => e.applied = <<>>

C4_Witness ==
    \E i \in 1..Len(host.log) :
        /\ Names(Submitted(host.log[i].call)) = <<"0002_x", "0001_x">>
        /\ host.log[i].applied = <<"0001_x", "0002_x">>

\* C5: a migration whose SQL touches a table outside the extension's
\* namespace is never marked applied and never named in the applied set of a
\* result; under the all-or-nothing policy a registration that contains one
\* is rejected and marks nothing applied.
C5_NamespaceIsolation ==
    /\ \A m \in HostMigrationPool :
            ~InNamespace(m.sql) => m.name \notin Range(host.applied)
    /\ \A c \in Calls :
        (calls[c].op = "registerMigrations" /\ Settled(c) /\ replies[c].ok) =>
            \A m \in Range(Submitted(c)) :
                ~InNamespace(m.sql) =>
                    m.name \notin Range(replies[c].result.appliedMigrations)
    /\ \A i \in 1..Len(host.log) :
        LET e == host.log[i]
        IN  (host.policy = "abort-all" /\ ~AllInNamespace(Submitted(e.call))) =>
                /\ e.applied = <<>>
                /\ calls[e.call].pc = "rejected"
                /\ Range(host.applied) = AppliedBefore(i)
                        \cup UNION {Range(host.log[k].applied) : k \in (i + 1)..Len(host.log)}

C5_Witness ==
    /\ host.policy = "abort-all"
    /\ Len(host.log) = 2
    /\ Names(Submitted(host.log[1].call)) = <<"0001_x">>
    /\ Names(Submitted(host.log[2].call)) = <<"0002_x", "0003_y">>
    /\ host.applied = <<"0001_x">>
    /\ calls[host.log[2].call].pc = "rejected"

====
